---- MODULE Spec2Model ----
(***************************************************************************)
(* TheScheduler backend: the time / day normaliser (app/time_utils.py) and *)
(* the conflict detector (app/conflicts.py) over the schedule_entries      *)
(* table (app/models.py).                                                  *)
(*                                                                         *)
(* Python str values are TLA+ strings; a character is a string of length   *)
(* one.  A Python call that may raise is modelled by its outcome: either   *)
(* Returned(value) or Raised(exception type, message).                     *)
(***************************************************************************)
EXTENDS Integers, Sequences, FiniteSets, TLC

VARIABLES
    time_lpu,   \* argument of parse_time_lpu ("" outside SpecTime)
    lpu_parts,  \* the pieces time_lpu was written from
    parsed,     \* outcome of parse_time_lpu(time_lpu), Pending before the call
    days,       \* argument of normalize_days_string
    days_out,   \* its result, Pending before the call
    ranges,     \* arguments <<start_a, end_a, start_b, end_b>> of overlap
    overlaps,   \* its result, Pending before the call
    entries,    \* rows of schedule_entries, in id order
    next_id,    \* next primary key the table assigns
    scan,       \* last call of the conflict detector: its arguments and outcome
    response    \* last request to the schedule API: its arguments and outcome

vars == <<time_lpu, lpu_parts, parsed, days, days_out, ranges, overlaps,
          entries, next_id, scan, response>>

Pending == [pending |-> TRUE]
\* SQL NULL / Python None in a nullable integer column; the minutes stored are >= 0
NULL == -1

\* ------------------------------------------------------------------------
\* Python values: outcomes of calls, characters, str methods
\* ------------------------------------------------------------------------

Returned(v) == [ok |-> TRUE, value |-> v]
Raised(exc, msg) == [ok |-> FALSE, error |-> exc, detail |-> msg]

CharAt(s, i) == IF i >= 1 /\ i <= Len(s) THEN SubSeq(s, i, i) ELSE ""

UpperLetters == "ABCDEFGHIJKLMNOPQRSTUVWXYZ"
LowerLetters == "abcdefghijklmnopqrstuvwxyz"
DigitChars == "0123456789"

Letters == {CharAt(UpperLetters, i) : i \in 1..26} \cup {CharAt(LowerLetters, i) : i \in 1..26}
Digits == {CharAt(DigitChars, i) : i \in 1..10}
Whitespace == {" ", "\t", "\n"}

LowerOf == [c \in {CharAt(UpperLetters, i) : i \in 1..26} |->
               CharAt(LowerLetters, CHOOSE i \in 1..26 : CharAt(UpperLetters, i) = c)]

LowerChar(c) == IF c \in DOMAIN LowerOf THEN LowerOf[c] ELSE c

RECURSIVE lower(_)
lower(s) == IF s = "" THEN "" ELSE LowerChar(Head(s)) \o lower(Tail(s))

isalpha(s) == s # "" /\ \A i \in 1..Len(s) : CharAt(s, i) \in Letters

RECURSIVE lstrip(_)
lstrip(s) == IF s # "" /\ Head(s) \in Whitespace THEN lstrip(Tail(s)) ELSE s

RECURSIVE rstrip(_)
rstrip(s) ==
    IF s # "" /\ CharAt(s, Len(s)) \in Whitespace
    THEN rstrip(SubSeq(s, 1, Len(s) - 1))
    ELSE s

strip(s) == rstrip(lstrip(s))

DigitValueOf == [c \in Digits |-> (CHOOSE i \in 1..10 : CharAt(DigitChars, i) = c) - 1]

DigitValue(c) == DigitValueOf[c]

RECURSIVE int(_)
int(ds) ==
    IF ds = "" THEN 0
    ELSE int(SubSeq(ds, 1, Len(ds) - 1)) * 10 + DigitValue(CharAt(ds, Len(ds)))

RECURSIVE str(_)
str(n) == IF n < 10 THEN CharAt(DigitChars, n + 1)
          ELSE str(n \div 10) \o CharAt(DigitChars, (n % 10) + 1)

\* f"{n:02d}" for n >= 0
Format02d(n) == IF n < 10 THEN "0" \o str(n) ELSE str(n)

\* ------------------------------------------------------------------------
\* time_utils.py: parse_time_lpu
\* ------------------------------------------------------------------------

RECURSIVE SkipSpace(_, _)
\* \s* from position i: the position of the first character it leaves
SkipSpace(s, i) == IF CharAt(s, i) \in Whitespace THEN SkipSpace(s, i + 1) ELSE i

NoMatch == [matched |-> FALSE]

\* (\d{1,2}): from position i: the number of hour digits, 0 for no match
HourDigits(s, i) ==
    IF CharAt(s, i) \in Digits /\ CharAt(s, i + 1) = ":" THEN 1
    ELSE IF CharAt(s, i) \in Digits /\ CharAt(s, i + 1) \in Digits /\ CharAt(s, i + 2) = ":"
         THEN 2
    ELSE 0

\* (\d{2})\s*([ap]) after n hour digits and the colon, the minutes at j and
\* the first character after the white space at k
SideGroups(s, i, n, j, k) ==
    IF n > 0 /\ CharAt(s, j) \in Digits /\ CharAt(s, j + 1) \in Digits
       /\ lower(CharAt(s, k)) \in {"a", "p"}
    THEN [matched |-> TRUE, h |-> SubSeq(s, i, i + n - 1), m |-> SubSeq(s, j, j + 1),
          ampm |-> CharAt(s, k), next |-> k + 1]
    ELSE NoMatch

SideAfterHour(s, i, n) == SideGroups(s, i, n, i + n + 1, SkipSpace(s, i + n + 3))

\* (\d{1,2}):(\d{2})\s*([ap]) from position i, case-insensitive
MatchSide(s, i) == SideAfterHour(s, i, HourDigits(s, i))

\* \s*$ after the second side b, and the six groups
BothSides(s, a, b) ==
    IF ~b.matched THEN NoMatch
    ELSE IF SkipSpace(s, b.next) # Len(s) + 1 THEN NoMatch
    ELSE [matched |-> TRUE, groups |-> <<a.h, a.m, a.ampm, b.h, b.m, b.ampm>>]

\* -\s* from position d and the second side
AfterDash(s, a, d) ==
    IF CharAt(s, d) # "-" THEN NoMatch
    ELSE BothSides(s, a, MatchSide(s, SkipSpace(s, d + 1)))

\* \s* after the first side a, and the rest of the pattern
AfterFirstSide(s, a) == IF ~a.matched THEN NoMatch ELSE AfterDash(s, a, SkipSpace(s, a.next))

\* LPU_TIME_RE.match(s): the six groups, or no match
LPU_TIME_RE(s) == AfterFirstSide(s, MatchSide(s, SkipSpace(s, 1)))

InvalidTimeLpu == "Invalid Time (LPU Std). Example: 10:00a-12:00p"
InvalidTimeComponent == "Invalid time component"

format_time_24(minutes) ==
    LET hours == minutes \div 60
        mins == minutes % 60
    IN  Format02d(hours) \o ":" \o Format02d(mins)

\* _to_minutes without the 12 a.m. -> 0 rule
_to_minutes_keeps_12am(hour, minute, meridian) ==
    IF hour < 1 \/ hour > 12 \/ minute < 0 \/ minute > 59
    THEN Raised("ValueError", InvalidTimeComponent)
    ELSE Returned((IF lower(meridian) = "a" \/ hour = 12 THEN hour ELSE hour + 12) * 60 + minute)

_to_minutes(hour, minute, meridian) ==
    IF hour < 1 \/ hour > 12 \/ minute < 0 \/ minute > 59
    THEN Raised("ValueError", InvalidTimeComponent)
    ELSE LET hour24 == IF lower(meridian) = "a"
                       THEN (IF hour = 12 THEN 0 ELSE hour)
                       ELSE (IF hour = 12 THEN 12 ELSE hour + 12)
         IN  Returned(hour24 * 60 + minute)

\* the range check and the return, once both sides are converted; the range
\* is empty or inverted when start_minutes >= end_minutes
RangeChecked(start_minutes, end_minutes, inverted) ==
    IF ~start_minutes.ok THEN start_minutes
    ELSE IF ~end_minutes.ok THEN end_minutes
    ELSE IF inverted THEN Raised("ValueError", InvalidTimeLpu)
    ELSE Returned(<<format_time_24(start_minutes.value) \o "-"
                      \o format_time_24(end_minutes.value),
                    start_minutes.value, end_minutes.value>>)

\* start_minutes and end_minutes from the groups g of the match
Converted(g) ==
    <<_to_minutes(int(g[1]), int(g[2]), g[3]), _to_minutes(int(g[4]), int(g[5]), g[6])>>

\* the range check comparing start > end, so that an empty range passes
RangeOfAllowingEmpty(sides) ==
    RangeChecked(sides[1], sides[2],
                 sides[1].ok /\ sides[2].ok /\ sides[1].value > sides[2].value)

\* if start_minutes >= end_minutes: raise
RangeOf(sides) ==
    RangeChecked(sides[1], sides[2],
                 sides[1].ok /\ sides[2].ok /\ sides[1].value >= sides[2].value)

\* the body of parse_time_lpu after LPU_TIME_RE.match comparing start > end
AfterMatchAllowingEmpty(match) ==
    IF ~match.matched THEN Raised("ValueError", InvalidTimeLpu)
    ELSE RangeOfAllowingEmpty(Converted(match.groups))

\* the body of parse_time_lpu after LPU_TIME_RE.match
AfterMatch(match) ==
    IF ~match.matched THEN Raised("ValueError", InvalidTimeLpu)
    ELSE RangeOf(Converted(match.groups))

\* parse_time_lpu comparing start > end, so that an empty range passes
parse_time_lpu_allows_empty(text) == AfterMatchAllowingEmpty(LPU_TIME_RE(text))

parse_time_lpu(text) == AfterMatch(LPU_TIME_RE(text))

\* ------------------------------------------------------------------------
\* time_utils.py: normalize_days_string, normalize_days, overlap
\* ------------------------------------------------------------------------

DAY_ALIASES ==
    ("m" :> "M") @@ ("mon" :> "M") @@ ("monday" :> "M")
    @@ ("t" :> "T") @@ ("tu" :> "T") @@ ("tue" :> "T") @@ ("tues" :> "T")
    @@ ("tuesday" :> "T")
    @@ ("w" :> "W") @@ ("wed" :> "W") @@ ("weds" :> "W") @@ ("wednesday" :> "W")
    @@ ("th" :> "Th") @@ ("thu" :> "Th") @@ ("thur" :> "Th") @@ ("thurs" :> "Th")
    @@ ("thursday" :> "Th")
    @@ ("f" :> "F") @@ ("fri" :> "F") @@ ("friday" :> "F")
    @@ ("sa" :> "Sa") @@ ("sat" :> "Sa") @@ ("saturday" :> "Sa")
    @@ ("su" :> "Su") @@ ("sun" :> "Su") @@ ("sunday" :> "Su")

CANONICAL_DAYS == {"M", "T", "W", "Th", "F", "Sa", "Su"}

\* dict.get(key, default)
DictGet(d, key, default) == IF key \in DOMAIN d THEN d[key] ELSE default

RECURSIVE replace(_, _, _)
\* str.replace for a one-character old
replace(s, old, new) ==
    IF s = "" THEN ""
    ELSE (IF Head(s) = old THEN new ELSE Head(s)) \o replace(Tail(s), old, new)

RECURSIVE split(_, _)
\* str.split(sep) for a one-character sep: empty pieces are kept
split(s, sep) ==
    IF \A i \in 1..Len(s) : CharAt(s, i) # sep THEN <<s>>
    ELSE LET i == CHOOSE k \in 1..Len(s) :
                      CharAt(s, k) = sep /\ \A j \in 1..(k - 1) : CharAt(s, j) # sep
         IN  <<SubSeq(s, 1, i - 1)>> \o split(SubSeq(s, i + 1, Len(s)), sep)

RECURSIVE join_without_separator(_, _)
\* str.join that writes the parts one after the other, without sep between them
join_without_separator(sep, parts) ==
    IF parts = <<>> THEN "" ELSE parts[1] \o join_without_separator(sep, Tail(parts))

RECURSIVE join(_, _)
join(sep, parts) ==
    IF parts = <<>> THEN ""
    ELSE IF Len(parts) = 1 THEN parts[1]
    ELSE parts[1] \o sep \o join(sep, Tail(parts))

NonEmpty(part) == part # ""
IsCanonical(token) == token \in CANONICAL_DAYS

RECURSIVE CompactFrom(_, _)
\* the while loop of _parse_compact_days from position idx
CompactFrom(value, idx) ==
    IF idx > Len(value) THEN <<>>
    ELSE LET two == lower(CharAt(value, idx) \o CharAt(value, idx + 1))
         IN  IF two = "th" THEN <<"Th">> \o CompactFrom(value, idx + 2)
             ELSE IF two = "sa" THEN <<"Sa">> \o CompactFrom(value, idx + 2)
             ELSE IF two = "su" THEN <<"Su">> \o CompactFrom(value, idx + 2)
             ELSE <<DictGet(DAY_ALIASES, lower(CharAt(value, idx)), CharAt(value, idx))>>
                  \o CompactFrom(value, idx + 1)

RECURSIVE _parse_compact_days_by_letter(_)
\* _parse_compact_days without the two-character lookahead
_parse_compact_days_by_letter(value) ==
    IF value = "" THEN <<>>
    ELSE <<DictGet(DAY_ALIASES, lower(Head(value)), Head(value))>>
         \o _parse_compact_days_by_letter(Tail(value))

_parse_compact_days(value) == CompactFrom(value, 1)

RECURSIVE DelimitedTokens(_)
\* the for loop of normalize_days_string over the parts
DelimitedTokens(parts) ==
    IF parts = <<>> THEN <<>>
    ELSE LET part == Head(parts)
             key == lower(strip(part))
         IN  (IF key = "" THEN <<>> ELSE <<DictGet(DAY_ALIASES, key, strip(part))>>)
             \o DelimitedTokens(Tail(parts))

\* tokens, from the non-empty parts: the compact reading of a single
\* alphabetic part longer than two characters, the delimited reading otherwise
TokensFrom(parts) ==
    IF Len(parts) = 1 /\ Len(parts[1]) > 2 /\ isalpha(parts[1])
    THEN _parse_compact_days(parts[1])
    ELSE DelimitedTokens(parts)

\* parts, from raw
PartsOf(raw) == SelectSeq(split(raw, ","), NonEmpty)

normalize_days_string(text) ==
    IF text = "" THEN ""
    ELSE join(",", SelectSeq(TokensFrom(PartsOf(replace(replace(text, "/", ","), " ", ","))),
                             IsCanonical))

\* {token for token in tokens if token}
TokenSet(tokens) == {tokens[i] : i \in {k \in 1..Len(tokens) : tokens[k] # ""}}

normalize_days(text) == TokenSet(split(normalize_days_string(text), ","))

\* overlap on closed intervals
overlap_closed(start_a, end_a, start_b, end_b) == start_a <= end_b /\ start_b <= end_a

overlap(start_a, end_a, start_b, end_b) == start_a < end_b /\ start_b < end_a

\* ------------------------------------------------------------------------
\* conflicts.py: find_conflicts over the rows of schedule_entries
\*
\* A row is [id, time_lpu, days, room, faculty, start_minutes, end_minutes];
\* the other columns of models.ScheduleEntry are not read by the detector.
\* ------------------------------------------------------------------------

\* time_lpu and days are NOT NULL columns (models.py), so value is a str here
\* and the None branch is never taken
_is_tba(value) == lower(strip(value)) \in {"", "tba"}

\* candidate in target
Contains(target, candidate) ==
    \E i \in 1..(Len(target) - Len(candidate) + 1) :
        SubSeq(target, i, i + Len(candidate) - 1) = candidate

\* the ignore-list match comparing the texts as written, letter case included
_matches_ignore_case_sensitive(value, ignore_list, contains) ==
    LET target == strip(value)
    IN  \E k \in 1..Len(ignore_list) :
            LET candidate == strip(ignore_list[k])
            IN  /\ candidate # ""
                /\ IF contains THEN Contains(target, candidate) ELSE candidate = target

_matches_ignore(value, ignore_list, contains) ==
    LET target == lower(strip(value))
    IN  \E k \in 1..Len(ignore_list) :
            LET candidate == lower(strip(ignore_list[k]))
            IN  /\ candidate # ""
                /\ IF contains THEN Contains(target, candidate) ELSE candidate = target

ConflictRecord(entry, other, type) ==
    [entry_id |-> entry.id, conflicts_with |-> other.id, conflict_type |-> type]

\* the call overlap(...) as Python evaluates it: ordering None against an int
\* raises TypeError
OverlapCall(start_a, end_a, start_b, end_b) ==
    IF start_a = NULL \/ end_b = NULL THEN Raised("TypeError", "'<' not supported")
    ELSE IF ~(start_a < end_b) THEN Returned(FALSE)
    ELSE IF start_b = NULL \/ end_a = NULL THEN Raised("TypeError", "'<' not supported")
    ELSE Returned(overlap(start_a, end_a, start_b, end_b))

\* the room check comparing the two rooms without regard to letter case
RoomRecordsCaseBlind(entry, other, cfg) ==
    IF cfg.ignore_room THEN <<>>
    ELSE IF \/ _matches_ignore(entry.room, cfg.ignore_room_list, cfg.contains_room)
            \/ _matches_ignore(other.room, cfg.ignore_room_list, cfg.contains_room)
         THEN <<>>
    ELSE IF lower(entry.room) = lower(other.room) THEN <<ConflictRecord(entry, other, "room")>>
    ELSE <<>>

RoomRecords(entry, other, cfg) ==
    IF cfg.ignore_room THEN <<>>
    ELSE IF \/ _matches_ignore(entry.room, cfg.ignore_room_list, cfg.contains_room)
            \/ _matches_ignore(other.room, cfg.ignore_room_list, cfg.contains_room)
         THEN <<>>
    ELSE IF entry.room = other.room THEN <<ConflictRecord(entry, other, "room")>>
    ELSE <<>>

FacultyRecords(entry, other, cfg) ==
    IF cfg.ignore_faculty THEN <<>>
    ELSE IF \/ _matches_ignore(entry.faculty, cfg.ignore_faculty_list, cfg.contains_faculty)
            \/ _matches_ignore(other.faculty, cfg.ignore_faculty_list, cfg.contains_faculty)
         THEN <<>>
    ELSE IF entry.faculty = other.faculty THEN <<ConflictRecord(entry, other, "faculty")>>
    ELSE <<>>

\* the body of the inner loop without its null-minute guard on other
PairScanUnguarded(entry, other, cfg) ==
    IF entry.id = other.id THEN Returned(<<>>)
    ELSE IF cfg.ignore_tba /\ (_is_tba(other.time_lpu) \/ _is_tba(other.days))
         THEN Returned(<<>>)
    ELSE LET over == OverlapCall(entry.start_minutes, entry.end_minutes,
                                 other.start_minutes, other.end_minutes)
         IN  IF ~over.ok THEN over
             ELSE IF ~over.value THEN Returned(<<>>)
             ELSE IF normalize_days(entry.days) \cap normalize_days(other.days) = {}
                  THEN Returned(<<>>)
             ELSE Returned(RoomRecords(entry, other, cfg) \o FacultyRecords(entry, other, cfg))

\* the body of the inner loop scanning only the rows after entry
PairScanForward(entry, other, cfg) ==
    IF entry.id >= other.id THEN Returned(<<>>)
    ELSE IF other.start_minutes = NULL \/ other.end_minutes = NULL THEN Returned(<<>>)
    ELSE PairScanUnguarded(entry, other, cfg)

\* the body of the inner loop: the records it appends for one (entry, other)
PairScan(entry, other, cfg) ==
    IF entry.id = other.id THEN Returned(<<>>)
    ELSE IF other.start_minutes = NULL \/ other.end_minutes = NULL THEN Returned(<<>>)
    ELSE IF cfg.ignore_tba /\ (_is_tba(other.time_lpu) \/ _is_tba(other.days))
         THEN Returned(<<>>)
    ELSE LET over == OverlapCall(entry.start_minutes, entry.end_minutes,
                                 other.start_minutes, other.end_minutes)
         IN  IF ~over.ok THEN over
             ELSE IF ~over.value THEN Returned(<<>>)
             ELSE IF normalize_days(entry.days) \cap normalize_days(other.days) = {}
                  THEN Returned(<<>>)
             ELSE Returned(RoomRecords(entry, other, cfg) \o FacultyRecords(entry, other, cfg))

\* the records of one pass of a loop followed by those of the passes after
\* it; an exception in a pass ends the loop
Chained(here, rest) ==
    IF ~here.ok THEN here
    ELSE IF ~rest.ok THEN rest
    ELSE Returned(here.value \o rest.value)

RECURSIVE InnerLoop(_, _, _, _)
\* for other in entries, from the k-th row on
InnerLoop(entry, rows, k, cfg) ==
    IF k > Len(rows) THEN Returned(<<>>)
    ELSE Chained(PairScan(entry, rows[k], cfg), InnerLoop(entry, rows, k + 1, cfg))

\* the outer loop's guards that let every TBA-equivalent row through
EntryScanTbaBlind(entry, rows, cfg) ==
    IF entry.start_minutes = NULL \/ entry.end_minutes = NULL THEN Returned(<<>>)
    ELSE InnerLoop(entry, rows, 1, cfg)

\* the body of the outer loop
EntryScan(entry, rows, cfg) ==
    IF entry.start_minutes = NULL \/ entry.end_minutes = NULL THEN Returned(<<>>)
    ELSE IF cfg.ignore_tba /\ (_is_tba(entry.time_lpu) \/ _is_tba(entry.days))
         THEN Returned(<<>>)
    ELSE InnerLoop(entry, rows, 1, cfg)

RECURSIVE OuterLoop(_, _, _)
\* for entry in entries, from the k-th row on
OuterLoop(rows, k, cfg) ==
    IF k > Len(rows) THEN Returned(<<>>)
    ELSE Chained(EntryScan(rows[k], rows, cfg), OuterLoop(rows, k + 1, cfg))

find_conflicts(rows, cfg) == OuterLoop(rows, 1, cfg)

\* [c for c in records if c["entry_id"] == entry_id]
RECURSIVE OfEntry(_, _)
OfEntry(records, entry_id) ==
    IF records = <<>> THEN <<>>
    ELSE (IF Head(records).entry_id = entry_id THEN <<Head(records)>> ELSE <<>>)
         \o OfEntry(Tail(records), entry_id)

\* find_conflicts is called with the table alone, so with its keyword defaults:
\* ignore nothing, empty lists, exact matching
KeywordDefaults ==
    [ignore_faculty |-> FALSE, ignore_room |-> FALSE, ignore_tba |-> FALSE,
     ignore_faculty_list |-> <<>>, ignore_room_list |-> <<>>,
     contains_faculty |-> FALSE, contains_room |-> FALSE]

\* the comprehension over what find_conflicts returned
Filtered(found, entry_id) ==
    IF ~found.ok THEN found ELSE Returned(OfEntry(found.value, entry_id))

conflicts_for_entry(rows, entry_id) ==
    Filtered(find_conflicts(rows, KeywordDefaults), entry_id)

CandidateRecord(type, other) == [conflict_type |-> type, entry |-> other]

CandidateRoomRecords(candidate, other, cfg) ==
    IF cfg.ignore_room THEN <<>>
    ELSE IF \/ _matches_ignore(candidate.room, cfg.ignore_room_list, cfg.contains_room)
            \/ _matches_ignore(other.room, cfg.ignore_room_list, cfg.contains_room)
         THEN <<>>
    ELSE IF candidate.room = other.room THEN <<CandidateRecord("room", other)>>
    ELSE <<>>

CandidateFacultyRecords(candidate, other, cfg) ==
    IF cfg.ignore_faculty THEN <<>>
    ELSE IF \/ _matches_ignore(candidate.faculty, cfg.ignore_faculty_list, cfg.contains_faculty)
            \/ _matches_ignore(other.faculty, cfg.ignore_faculty_list, cfg.contains_faculty)
         THEN <<>>
    ELSE IF candidate.faculty = other.faculty THEN <<CandidateRecord("faculty", other)>>
    ELSE <<>>

\* the loop body of conflicts_for_candidate that lets the row with id entry_id through
CandidatePairScanWithSelf(entry_id, candidate, other, cfg) ==
    IF other.start_minutes = NULL \/ other.end_minutes = NULL THEN Returned(<<>>)
    ELSE IF cfg.ignore_tba /\ (_is_tba(other.time_lpu) \/ _is_tba(other.days))
         THEN Returned(<<>>)
    ELSE LET over == OverlapCall(candidate.start_minutes, candidate.end_minutes,
                                 other.start_minutes, other.end_minutes)
         IN  IF ~over.ok THEN over
             ELSE IF ~over.value THEN Returned(<<>>)
             ELSE IF normalize_days(candidate.days) \cap normalize_days(other.days) = {}
                  THEN Returned(<<>>)
             ELSE Returned(CandidateRoomRecords(candidate, other, cfg)
                           \o CandidateFacultyRecords(candidate, other, cfg))

\* the loop body of conflicts_for_candidate: the records it appends for one other
CandidatePairScan(entry_id, candidate, other, cfg) ==
    IF other.id = entry_id THEN Returned(<<>>)
    ELSE IF other.start_minutes = NULL \/ other.end_minutes = NULL THEN Returned(<<>>)
    ELSE IF cfg.ignore_tba /\ (_is_tba(other.time_lpu) \/ _is_tba(other.days))
         THEN Returned(<<>>)
    ELSE LET over == OverlapCall(candidate.start_minutes, candidate.end_minutes,
                                 other.start_minutes, other.end_minutes)
         IN  IF ~over.ok THEN over
             ELSE IF ~over.value THEN Returned(<<>>)
             ELSE IF normalize_days(candidate.days) \cap normalize_days(other.days) = {}
                  THEN Returned(<<>>)
             ELSE Returned(CandidateRoomRecords(candidate, other, cfg)
                           \o CandidateFacultyRecords(candidate, other, cfg))

RECURSIVE CandidateLoop(_, _, _, _, _)
\* for other in entries, from the k-th row on
CandidateLoop(entry_id, candidate, rows, k, cfg) ==
    IF k > Len(rows) THEN Returned(<<>>)
    ELSE Chained(CandidatePairScan(entry_id, candidate, rows[k], cfg),
                 CandidateLoop(entry_id, candidate, rows, k + 1, cfg))

conflicts_for_candidate(rows, entry_id, candidate, cfg) ==
    IF candidate.start_minutes = NULL \/ candidate.end_minutes = NULL THEN Returned(<<>>)
    ELSE IF cfg.ignore_tba /\ (_is_tba(candidate.time_lpu) \/ _is_tba(candidate.days))
         THEN Returned(<<>>)
    ELSE CandidateLoop(entry_id, candidate, rows, 1, cfg)

\* ------------------------------------------------------------------------
\* The texts parse_time_lpu is called with
\* ------------------------------------------------------------------------

MaxHour == 13
MaxMinute == 61

\* One side of a range as a user writes it: the hour, with or without a
\* leading zero, the minute (or none), and the meridiem text.
SideText(p, inner, gap) ==
    (IF p.pad THEN "0" ELSE "") \o str(p.h) \o inner
    \o (IF p.bare THEN "" ELSE ":" \o (IF p.m < 10 THEN "0" ELSE "") \o str(p.m))
    \o gap \o p.ap

\* sp = <<lead, inside the first hour:minute, before the first meridiem,
\*        before the dash, after it, before the second meridiem, trail>>
RangeText(a, b, sp) ==
    sp[1] \o SideText(a, sp[2], sp[3]) \o sp[4] \o "-" \o sp[5]
    \o SideText(b, "", sp[6]) \o sp[7]

Tight == <<"", "", "", "", "", "", "">>
Loose == <<" ", "", " ", " ", "  ", "\t", " ">>
Split == <<"", " ", "", "", "", "", "">>
Spacings == {Tight, Loose, Split}

Side(h, pad, m, ap) == [h |-> h, pad |-> pad, m |-> m, ap |-> ap, bare |-> FALSE]
\* a side written without its :MM part
Bare(h, pad, ap) == [h |-> h, pad |-> pad, m |-> 0, ap |-> ap, bare |-> TRUE]

RegularSides ==
    {Side(h, pad, m, ap) : h \in 0..MaxHour, pad \in BOOLEAN, m \in 0..MaxMinute,
                           ap \in {"a", "p", "A", "P"}}
    \ {Side(h, TRUE, m, ap) : h \in 10..MaxHour, m \in 0..MaxMinute, ap \in {"a", "p", "A", "P"}}

OddSides ==
    {Bare(10, FALSE, "a"), Bare(12, FALSE, "p"),
     Side(7, FALSE, 0, "AM"), Side(9, FALSE, 0, "x"), Side(9, FALSE, 0, ""),
     Side(123, FALSE, 0, "a"), Side(9, FALSE, 100, "p"), Bare(1, TRUE, "P")}

AnchorSides ==
    {Side(12, FALSE, 0, "a"), Side(12, FALSE, 0, "p"), Side(11, FALSE, 59, "p")}

\* the ranges of tests/test_time_utils.py, tests/test_api.py and tests/test_conflicts.py
TestRanges ==
    {<<Side(10, FALSE, 0, "a"), Side(12, FALSE, 0, "p"), Tight>>,
     <<Side(11, FALSE, 0, "a"), Side(2, FALSE, 0, "p"), Tight>>,
     <<Side(12, FALSE, 0, "p"), Side(3, FALSE, 0, "p"), Tight>>,
     <<Side(12, FALSE, 0, "a"), Side(1, FALSE, 0, "a"), Tight>>,
     <<Side(10, FALSE, 0, "a"), Side(9, FALSE, 0, "a"), Tight>>,
     <<Side(1, FALSE, 0, "p"), Side(2, FALSE, 30, "p"), Tight>>,
     <<Side(7, FALSE, 0, "AM"), Side(8, FALSE, 0, "AM"), <<"", "", " ", " ", " ", " ", "">> >>}

LpuInputs ==
    ((RegularSides \cup OddSides) \X AnchorSides \X Spacings)
    \cup (AnchorSides \X (RegularSides \cup OddSides) \X Spacings)
    \cup (OddSides \X OddSides \X Spacings)
    \cup TestRanges

InitTime ==
    /\ lpu_parts \in LpuInputs
    /\ time_lpu = RangeText(lpu_parts[1], lpu_parts[2], lpu_parts[3])
    /\ parsed = Pending
    /\ days = "" /\ days_out = Pending
    /\ ranges = <<0, 0, 0, 0>> /\ overlaps = Pending
    /\ entries = <<>> /\ next_id = 1 /\ scan = Pending /\ response = Pending

ParseTimeLpu ==
    /\ parsed = Pending
    /\ parsed' = parse_time_lpu(time_lpu)
    /\ UNCHANGED <<time_lpu, lpu_parts, days, days_out, ranges, overlaps,
                   entries, next_id, scan, response>>

NextTime == ParseTimeLpu

SpecTime == InitTime /\ [][NextTime]_vars

\* ------------------------------------------------------------------------
\* Properties of parse_time_lpu (SpecTime)
\* ------------------------------------------------------------------------

Called == parsed # Pending
Accepted == Called /\ parsed.ok
Rejected == Called /\ ~parsed.ok

\* start and end are the last two values of the returned tuple
StartOf(r) == r.value[Len(r.value) - 1]
EndOf(r) == r.value[Len(r.value)]

TwoDigits(n) == CharAt(DigitChars, (n \div 10) + 1) \o CharAt(DigitChars, (n % 10) + 1)
HHMM(minutes) == TwoDigits(minutes \div 60) \o ":" \o TwoDigits(minutes % 60)

WellFormed(p) == ~p.bare /\ p.h \in 1..12 /\ p.m \in 0..59 /\ p.ap \in {"a", "p", "A", "P"}

\* minutes past midnight of a side by the 12-hour rules (a side without :MM
\* has minute 0)
ClockMinutes(p) ==
    IF p.ap \in {"a", "A"}
    THEN (IF p.h = 12 THEN 0 ELSE p.h) * 60 + p.m
    ELSE (IF p.h = 12 THEN 12 ELSE p.h + 12) * 60 + p.m

\* C1: every text parse_time_lpu accepts yields four values (display, time_24,
\* start_minutes, end_minutes): display is the text unchanged and time_24 is the
\* zero-padded HH:MM-HH:MM string of start_minutes and end_minutes.
C1_FourValues ==
    Accepted =>
        /\ Len(parsed.value) = 4
        /\ parsed.value[1] = time_lpu
        /\ parsed.value[2] = HHMM(parsed.value[3]) \o "-" \o HHMM(parsed.value[4])

\* C2: with hour 1..12, minute 0..59 and meridiem a or p in either case on each
\* side, an accepted range has start and end equal to the 12-hour conversion of
\* its sides (a: 12 -> 0; p: 12 -> 12, others + 12); 12:00a-1:00a is (0, 60)
\* and 12:00p-3:00p is (720, 900).
C2_ToMinutes ==
    /\ (Accepted /\ WellFormed(lpu_parts[1]) /\ WellFormed(lpu_parts[2])) =>
           /\ StartOf(parsed) = ClockMinutes(lpu_parts[1])
           /\ EndOf(parsed) = ClockMinutes(lpu_parts[2])
    /\ (Called /\ time_lpu = "12:00a-1:00a") =>
           (parsed.ok /\ StartOf(parsed) = 0 /\ EndOf(parsed) = 60)
    /\ (Called /\ time_lpu = "12:00p-3:00p") =>
           (parsed.ok /\ StartOf(parsed) = 720 /\ EndOf(parsed) = 900)

C2_Witness ==
    /\ Accepted /\ time_lpu = " 12:00 a -  09:59\tP "
    /\ StartOf(parsed) = 0 /\ EndOf(parsed) = 1319

BadHour(p) == p.h = 0 \/ p.h > 12
BadMinute(p) == ~p.bare /\ p.m > 59

\* C3: parse_time_lpu raises ValueError (invalid time / invalid time component)
\* when an hour is 0 or above 12, a minute is above 59, or the resolved start is
\* not strictly before the resolved end; when it succeeds,
\* 0 <= start_minutes < end_minutes < 1440.
C3_Rejects ==
    /\ (Called /\ (\/ BadHour(lpu_parts[1]) \/ BadHour(lpu_parts[2])
                   \/ BadMinute(lpu_parts[1]) \/ BadMinute(lpu_parts[2])
                   \/ /\ WellFormed(lpu_parts[1]) /\ WellFormed(lpu_parts[2])
                      /\ ClockMinutes(lpu_parts[1]) >= ClockMinutes(lpu_parts[2]))) =>
           /\ ~parsed.ok
           /\ parsed.error = "ValueError"
           /\ parsed.detail \in {InvalidTimeLpu, InvalidTimeComponent}
    /\ Accepted =>
           (0 <= StartOf(parsed) /\ StartOf(parsed) < EndOf(parsed) /\ EndOf(parsed) < 1440)

C3_Witness ==
    Rejected /\ time_lpu = "10:00a-9:00a" /\ parsed.detail = InvalidTimeLpu

\* a side of the grammar H(:MM)? [ap]
InGrammar(p) ==
    p.h \in 1..12 /\ p.m \in 0..59 /\ p.ap \in {"a", "p", "A", "P"}

\* C4: every text H(:MM)? [ap] - H(:MM)? [ap] with hour 1..12 and minute 0..59
\* is accepted, with optional whitespace around the components and either case
\* of the meridiem; a side without :MM has minute 0 (10a-12p is 600, 720).
C4_Grammar ==
    (/\ Called
     /\ InGrammar(lpu_parts[1]) /\ InGrammar(lpu_parts[2])
     /\ lpu_parts[3] \in {Tight, Loose}
     /\ ClockMinutes(lpu_parts[1]) < ClockMinutes(lpu_parts[2])) =>
        /\ parsed.ok
        /\ StartOf(parsed) = ClockMinutes(lpu_parts[1])
        /\ EndOf(parsed) = ClockMinutes(lpu_parts[2])

\* ------------------------------------------------------------------------
\* The texts normalize_days_string is called with, the ranges overlap is
\* called with
\* ------------------------------------------------------------------------

MaxDayPieces == 3

DayPieces ==
    {"M", "T", "W", "F", "Th", "Sa", "Su", "m", "tH", "sA", "su", "S", "h", "a", "x",
     ",", "/", " "}

RECURSIVE Concat(_)
Concat(pieces) == IF pieces = <<>> THEN "" ELSE Head(pieces) \o Concat(Tail(pieces))

\* the day texts of spec.md section 8 and of the tests
DaysSamples ==
    {"MWF", "TThS", "M,W,M", "Mon, Wednesday, Fri", "M/W/F", "Monday", "TBA",
     "Monday, Wednesday", "T, Th ,Sa/su", "\tM , W"}

DaysInputs ==
    {Concat(pieces) : pieces \in UNION {[1..n -> DayPieces] : n \in 0..MaxDayPieces}}
    \cup DaysSamples

InitDays ==
    /\ days \in DaysInputs
    /\ days_out = Pending
    /\ time_lpu = "" /\ lpu_parts = <<>> /\ parsed = Pending
    /\ ranges = <<0, 0, 0, 0>> /\ overlaps = Pending
    /\ entries = <<>> /\ next_id = 1 /\ scan = Pending /\ response = Pending

NormalizeDaysString ==
    /\ days_out = Pending
    /\ days_out' = Returned(normalize_days_string(days))
    /\ UNCHANGED <<time_lpu, lpu_parts, parsed, days, ranges, overlaps,
                   entries, next_id, scan, response>>

NextDays == NormalizeDaysString

SpecDays == InitDays /\ [][NextDays]_vars

MaxClock == 4

\* the calls of tests/test_conflicts.py test_overlap_logic
OverlapTests == {<<60, 120, 110, 180>>, <<60, 120, 120, 180>>, <<60, 120, 0, 59>>}

InitOverlap ==
    /\ ranges \in ((0..MaxClock) \X (0..MaxClock) \X (0..MaxClock) \X (0..MaxClock))
                  \cup OverlapTests
    /\ overlaps = Pending
    /\ time_lpu = "" /\ lpu_parts = <<>> /\ parsed = Pending
    /\ days = "" /\ days_out = Pending
    /\ entries = <<>> /\ next_id = 1 /\ scan = Pending /\ response = Pending

Overlap ==
    /\ overlaps = Pending
    /\ overlaps' = Returned(overlap(ranges[1], ranges[2], ranges[3], ranges[4]))
    /\ UNCHANGED <<time_lpu, lpu_parts, parsed, days, days_out, ranges,
                   entries, next_id, scan, response>>

NextOverlap == Overlap

SpecOverlap == InitOverlap /\ [][NextOverlap]_vars

\* ------------------------------------------------------------------------
\* Properties of normalize_days_string (SpecDays) and overlap (SpecOverlap)
\* ------------------------------------------------------------------------

Normalized == days_out # Pending

\* the day tokens of a comma-joined list
TokensOf(text) == SelectSeq(split(text, ","), NonEmpty)

RECURSIVE CompactReading(_)
\* the left-to-right reading of a run-together day text: th, sa, su first,
\* then m, t, w, f, anything else dropped
CompactReading(s) ==
    IF s = "" THEN <<>>
    ELSE LET two == lower(SubSeq(s, 1, IF Len(s) >= 2 THEN 2 ELSE 1))
             one == lower(SubSeq(s, 1, 1))
         IN  IF two \in {"th", "sa", "su"}
             THEN <<CASE two = "th" -> "Th" [] two = "sa" -> "Sa" [] two = "su" -> "Su">>
                  \o CompactReading(SubSeq(s, 3, Len(s)))
             ELSE (CASE one = "m" -> <<"M">> [] one = "t" -> <<"T">>
                     [] one = "w" -> <<"W">> [] one = "f" -> <<"F">>
                     [] OTHER -> <<>>)
                  \o CompactReading(SubSeq(s, 2, Len(s)))

OnlyLetters(s) == \A i \in 1..Len(s) : CharAt(s, i) \in Letters

\* C5: a days text that is one alphabetic token longer than 2 characters is
\* read left to right, two characters at a time for th, sa, su (any case) and
\* otherwise one character mapped by m, t, w, f, other characters dropped;
\* MWF gives M, W, F and TThS gives T, Th.
C5_Compact ==
    /\ (Normalized /\ Len(days) > 2 /\ OnlyLetters(days)) =>
           TokensOf(days_out.value) = CompactReading(days)
    /\ (Normalized /\ days = "MWF") => days_out.value = "M,W,F"
    /\ (Normalized /\ days = "TThS") => days_out.value = "T,Th"

C5_Witness == Normalized /\ days = "TThS" /\ days_out.value = "T,Th"

\* C6: the normalized day list holds only tokens of {M, T, W, Th, F, Sa, Su},
\* in first-seen order and none of them twice; M,W,M normalizes to M,W.
C6_NoDuplicates ==
    Normalized =>
        LET tokens == TokensOf(days_out.value)
        IN  /\ \A i \in 1..Len(tokens) : tokens[i] \in {"M", "T", "W", "Th", "F", "Sa", "Su"}
            /\ \A i, j \in 1..Len(tokens) : i # j => tokens[i] # tokens[j]
            /\ days = "M,W,M" => days_out.value = "M,W"

\* C7: overlap(start_a, end_a, start_b, end_b) is true exactly when
\* start_a < end_b and start_b < end_a; ranges that touch at an endpoint or
\* are disjoint do not overlap, and swapping the two ranges gives the same result.
C7_Overlap ==
    (overlaps # Pending) =>
        LET start_a == ranges[1]  end_a == ranges[2]
            start_b == ranges[3]  end_b == ranges[4]
        IN  /\ overlaps.value <=> (start_a < end_b /\ start_b < end_a)
            /\ (end_a = start_b \/ end_b = start_a) => ~overlaps.value
            /\ (end_a < start_b \/ end_b < start_a) => ~overlaps.value
            /\ overlaps.value = overlap(start_b, end_b, start_a, end_a)

C7_Witness ==
    /\ overlaps # Pending /\ ranges = <<60, 120, 120, 180>> /\ overlaps.value = FALSE

\* ------------------------------------------------------------------------
\* The table and the detector (Spec): rows are added as
\* tests/test_conflicts.py adds them, with any column values, and
\* find_conflicts is called with a configuration
\* ------------------------------------------------------------------------

MaxEntries == 2

Row(time, day_text, start, end, room, faculty) ==
    [time_lpu |-> time, days |-> day_text, start_minutes |-> start, end_minutes |-> end,
     room |-> room, faculty |-> faculty]

Slots == {<<"1:00a-2:00a", 60, 120>>, <<"1:50a-3:00a", 110, 180>>, <<"2:00a-3:00a", 120, 180>>}

\* rows as create_schedule_entry is to store a timed entry: three time slots
\* (overlapping, touching), two rooms, a second faculty name in the first
\* room, another day list, and a room and a faculty name in another letter case
TimedRows ==
    {Row(slot[1], "M,W", slot[2], slot[3], room, "Dr. Ada") :
        slot \in Slots, room \in {"R101", "R102"}}
    \cup {Row(slot[1], "M,W", slot[2], slot[3], "R101", "Dr. Cy") : slot \in Slots}
    \cup {Row("1:50a-3:00a", "T,Th", 110, 180, "R101", "Dr. Ada"),
          Row("1:50a-3:00a", "M,W", 110, 180, "r101", "dr. ada")}

\* a fully TBA row, rows that are TBA in one column only, rows with a null minute
OddRows ==
    {Row("TBA", "TBA", NULL, NULL, "R101", "Dr. Ada"),
     Row(" tba", "M,W", 60, 120, "R101", "Dr. Ada"),
     Row("1:50a-3:00a", "TBA", 110, 180, "R101", "Dr. Ada"),
     Row("1:00a-2:00a", " ", 60, 120, "R101", "Dr. Ada"),
     Row("1:00a-2:00a", "M,W", NULL, 120, "R101", "Dr. Ada"),
     Row("1:50a-3:00a", "M,W", 110, NULL, "R101", "Dr. Ada")}

Rows == TimedRows \cup OddRows

\* the keyword arguments of find_conflicts, in the order of its signature
Config(no_faculty, no_room, no_tba, faculty_list, room_list, in_faculty, in_room) ==
    [ignore_faculty |-> no_faculty, ignore_room |-> no_room, ignore_tba |-> no_tba,
     ignore_faculty_list |-> faculty_list, ignore_room_list |-> room_list,
     contains_faculty |-> in_faculty, contains_room |-> in_room]

\* the keyword defaults of find_conflicts
DefaultConfig == Config(FALSE, FALSE, FALSE, <<>>, <<>>, FALSE, FALSE)

Configs ==
    {Config(f, r, t, <<>>, <<>>, FALSE, FALSE) : f \in BOOLEAN, r \in BOOLEAN, t \in BOOLEAN}
    \cup {Config(FALSE, FALSE, FALSE, <<" dr. ada">>, <<>>, FALSE, FALSE),
          Config(FALSE, FALSE, TRUE, <<>>, <<"", "r10">>, FALSE, TRUE),
          Config(FALSE, FALSE, FALSE, <<"ADA ">>, <<>>, TRUE, FALSE),
          Config(FALSE, FALSE, FALSE, <<"ada">>, <<>>, FALSE, FALSE),
          Config(FALSE, FALSE, FALSE, <<>>, <<" R101 ">>, FALSE, FALSE),
          Config(FALSE, FALSE, FALSE, <<" ", "">>, <<"102">>, TRUE, TRUE)}

Init ==
    /\ entries = <<>> /\ next_id = 1 /\ scan = Pending /\ response = Pending
    /\ time_lpu = "" /\ lpu_parts = <<>> /\ parsed = Pending
    /\ days = "" /\ days_out = Pending
    /\ ranges = <<0, 0, 0, 0>> /\ overlaps = Pending

\* db.add(models.ScheduleEntry(...)); db.commit()
AddEntry ==
    /\ Len(entries) < MaxEntries
    /\ \E row \in Rows :
           entries' = Append(entries, [id |-> next_id] @@ row)
    /\ next_id' = next_id + 1
    /\ scan' = Pending
    /\ UNCHANGED <<time_lpu, lpu_parts, parsed, days, days_out, ranges, overlaps, response>>

\* GET /conflicts on the table as it stands
FindConflicts ==
    /\ scan = Pending
    /\ \E cfg \in Configs :
           scan' = [op |-> "find_conflicts", cfg |-> cfg,
                    result |-> find_conflicts(entries, cfg)]
    /\ UNCHANGED <<time_lpu, lpu_parts, parsed, days, days_out, ranges, overlaps,
                   entries, next_id, response>>

Next == AddEntry \/ FindConflicts

Spec == Init /\ [][Next]_vars

\* The per-entry lookups over the same table (SpecLookup): conflicts_for_entry
\* with an id, conflicts_for_candidate with the id of a stored entry and, as
\* candidate, that entry as stored or as a form would resubmit it
LookupConfigs ==
    {DefaultConfig,
     Config(FALSE, FALSE, TRUE, <<>>, <<>>, FALSE, FALSE),
     Config(FALSE, TRUE, FALSE, <<>>, <<>>, FALSE, FALSE),
     Config(FALSE, FALSE, FALSE, <<" dr. ada">>, <<>>, FALSE, FALSE),
     Config(FALSE, FALSE, TRUE, <<>>, <<"", "r10">>, FALSE, TRUE)}

EditedRows == {Row("1:50a-3:00a", "M,W", 110, 180, "R102", "Dr. Ada")}

ConflictsForEntry ==
    /\ scan = Pending
    /\ \E entry_id \in 1..next_id :
           scan' = [op |-> "conflicts_for_entry", entry_id |-> entry_id,
                    result |-> conflicts_for_entry(entries, entry_id)]
    /\ UNCHANGED <<time_lpu, lpu_parts, parsed, days, days_out, ranges, overlaps,
                   entries, next_id, response>>

ConflictsForCandidate ==
    /\ scan = Pending
    /\ \E k \in 1..Len(entries), cfg \in LookupConfigs :
           \E candidate \in {entries[k]} \cup {[id |-> entries[k].id] @@ row : row \in EditedRows} :
               scan' = [op |-> "conflicts_for_candidate", entry_id |-> entries[k].id,
                        candidate |-> candidate, cfg |-> cfg,
                        result |-> conflicts_for_candidate(entries, entries[k].id,
                                                           candidate, cfg)]
    /\ UNCHANGED <<time_lpu, lpu_parts, parsed, days, days_out, ranges, overlaps,
                   entries, next_id, response>>

NextLookup == AddEntry \/ ConflictsForEntry \/ ConflictsForCandidate

SpecLookup == Init /\ [][NextLookup]_vars

\* ------------------------------------------------------------------------
\* Properties of find_conflicts (Spec)
\* ------------------------------------------------------------------------

Scanned == scan # Pending /\ scan.op = "find_conflicts"
Stored == {entries[i] : i \in 1..Len(entries)}
Records(result) == {result.value[k] : k \in 1..Len(result.value)}

\* the row appears as entry_id or as conflicts_with of some record
Appears(e, result) ==
    \E rec \in Records(result) : rec.entry_id = e.id \/ rec.conflicts_with = e.id

HasMinutes(e) == e.start_minutes # NULL /\ e.end_minutes # NULL

\* the positions of the records between two rows, in either direction
Between(a, b, result) ==
    {k \in 1..Len(result.value) :
        {result.value[k].entry_id, result.value[k].conflicts_with} = {a.id, b.id}}

\* C8: find_conflicts holds a record (A, B, t) if and only if it holds
\* (B, A, t); two entries that share a day, overlap in time and have the same
\* room and the same faculty have exactly 4 records between them under the
\* default configuration.
C8_Symmetric ==
    (Scanned /\ scan.result.ok) =>
        /\ \A rec \in Records(scan.result) :
               [entry_id |-> rec.conflicts_with, conflicts_with |-> rec.entry_id,
                conflict_type |-> rec.conflict_type] \in Records(scan.result)
        /\ scan.cfg = DefaultConfig =>
               \A a, b \in Stored :
                   (/\ a.id # b.id
                    /\ HasMinutes(a) /\ HasMinutes(b)
                    /\ normalize_days(a.days) \cap normalize_days(b.days) # {}
                    /\ a.start_minutes < b.end_minutes /\ b.start_minutes < a.end_minutes
                    /\ a.room = b.room /\ a.faculty = b.faculty) =>
                       Cardinality(Between(a, b, scan.result)) = 4

C8_Witness ==
    /\ Scanned /\ scan.cfg = DefaultConfig /\ scan.result.ok
    /\ Len(entries) = 2
    /\ scan.result.value =
           <<[entry_id |-> 1, conflicts_with |-> 2, conflict_type |-> "room"],
             [entry_id |-> 1, conflicts_with |-> 2, conflict_type |-> "faculty"],
             [entry_id |-> 2, conflicts_with |-> 1, conflict_type |-> "room"],
             [entry_id |-> 2, conflicts_with |-> 1, conflict_type |-> "faculty"]>>

TbaEquivalent(text) == lower(strip(text)) \in {"", "tba"}
TbaRow(e) == e.days = "TBA" \/ TbaEquivalent(e.time_lpu) \/ TbaEquivalent(e.days)

\* C9: under every configuration, ignore_tba = false included, an entry whose
\* days field is TBA or whose time or days field is TBA-equivalent appears in no
\* record of find_conflicts, whatever its minute fields are.
C9_TbaNeverAppears ==
    (Scanned /\ scan.result.ok) =>
        \A e \in Stored : TbaRow(e) => ~Appears(e, scan.result)

\* C9 as amended: such an entry appears in no record when ignore_tba = true,
\* whatever its minute fields are, and when start_minutes or end_minutes is
\* null, whatever the configuration.
C9_TbaSkipped ==
    (Scanned /\ scan.result.ok) =>
        \A e \in Stored :
            (TbaRow(e) /\ (scan.cfg.ignore_tba \/ ~HasMinutes(e))) => ~Appears(e, scan.result)

C9_Witness ==
    /\ Scanned /\ scan.result.ok /\ scan.cfg.ignore_tba
    /\ \E e \in Stored :
           /\ TbaRow(e) /\ HasMinutes(e)
           /\ ~Appears(e, scan.result)
           /\ Appears(e, find_conflicts(entries, [scan.cfg EXCEPT !.ignore_tba = FALSE]))

\* C10: find_conflicts returns a list without raising, and an entry whose
\* start_minutes or end_minutes is null appears in no record.
C10_NullMinutes ==
    Scanned =>
        /\ scan.result.ok
        /\ \A e \in Stored : ~HasMinutes(e) => ~Appears(e, scan.result)

C10_Witness ==
    /\ Scanned /\ scan.result.ok
    /\ \E e, o \in Stored :
           /\ e.start_minutes = NULL /\ e.end_minutes # NULL
           /\ HasMinutes(o) /\ o.room = e.room /\ o.days = e.days
           /\ ~Appears(e, scan.result)

\* the two rows pass every test of the pair that comes before the room and
\* faculty checks: distinct, minutes present, not skipped as TBA, a shared day,
\* overlapping ranges
Clash(a, b, cfg) ==
    /\ a.id # b.id
    /\ HasMinutes(a) /\ HasMinutes(b)
    /\ cfg.ignore_tba =>
           ~(\/ TbaEquivalent(a.time_lpu) \/ TbaEquivalent(a.days)
             \/ TbaEquivalent(b.time_lpu) \/ TbaEquivalent(b.days))
    /\ normalize_days(a.days) \cap normalize_days(b.days) # {}
    /\ a.start_minutes < b.end_minutes /\ b.start_minutes < a.end_minutes

\* the name matches an item of the ignore list: both are trimmed and
\* lower-cased, an item that is then empty matches nothing
Listed(name, list, contains) ==
    LET target == lower(strip(name))
    IN  \E k \in 1..Len(list) :
            LET item == lower(strip(list[k]))
            IN  /\ item # ""
                /\ IF contains
                   THEN \E i \in 1..Len(target) : \E j \in i..Len(target) :
                            SubSeq(target, i, j) = item
                   ELSE target = item

HasRecord(a, b, type, result) ==
    [entry_id |-> a.id, conflicts_with |-> b.id, conflict_type |-> type] \in Records(result)

\* C11: with ignore_faculty = false, two otherwise conflicting entries of equal
\* faculty have no faculty record exactly when the faculty of one of them
\* matches an ignore-list item that is not empty once trimmed: in exact mode
\* the trimmed, lower-cased name equals the trimmed, lower-cased item, in
\* substring mode it contains it; otherwise the record is kept.  The same for
\* room with ignore_room, the room list and contains_room.
C11_IgnoreLists ==
    (Scanned /\ scan.result.ok) =>
        \A a, b \in Stored :
            Clash(a, b, scan.cfg) =>
                /\ (~scan.cfg.ignore_faculty /\ a.faculty = b.faculty) =>
                       (~HasRecord(a, b, "faculty", scan.result) <=>
                            \/ Listed(a.faculty, scan.cfg.ignore_faculty_list,
                                      scan.cfg.contains_faculty)
                            \/ Listed(b.faculty, scan.cfg.ignore_faculty_list,
                                      scan.cfg.contains_faculty))
                /\ (~scan.cfg.ignore_room /\ a.room = b.room) =>
                       (~HasRecord(a, b, "room", scan.result) <=>
                            \/ Listed(a.room, scan.cfg.ignore_room_list,
                                      scan.cfg.contains_room)
                            \/ Listed(b.room, scan.cfg.ignore_room_list,
                                      scan.cfg.contains_room))

\* the faculty record is suppressed by a substring item written in another
\* case, the room record of the same pair is kept
C11_Witness ==
    /\ Scanned /\ scan.result.ok
    /\ scan.cfg.ignore_faculty_list = <<"ADA ">> /\ scan.cfg.contains_faculty
    /\ \E a, b \in Stored :
           /\ Clash(a, b, scan.cfg)
           /\ a.faculty = "Dr. Ada" /\ b.faculty = "Dr. Ada" /\ a.room = b.room
           /\ ~HasRecord(a, b, "faculty", scan.result)
           /\ HasRecord(a, b, "room", scan.result)

\* C18: for every ordered pair of distinct stored entries (A, B) and every
\* configuration, find_conflicts holds a room record A -> B if and only if
\* both have start and end minutes, neither is TBA-equivalent in time or days
\* when ignore_tba is set, their day sets intersect, their minute ranges
\* overlap, ignore_room is false, neither room matches the room ignore list,
\* and the two room strings are equal as written; the same for faculty
\* records with the faculty settings; no record has entry_id = conflicts_with.
C18_RecordRule ==
    (Scanned /\ scan.result.ok) =>
        /\ \A a, b \in Stored :
               a.id # b.id =>
                   /\ HasRecord(a, b, "room", scan.result) <=>
                          /\ Clash(a, b, scan.cfg)
                          /\ ~scan.cfg.ignore_room
                          /\ ~Listed(a.room, scan.cfg.ignore_room_list, scan.cfg.contains_room)
                          /\ ~Listed(b.room, scan.cfg.ignore_room_list, scan.cfg.contains_room)
                          /\ a.room = b.room
                   /\ HasRecord(a, b, "faculty", scan.result) <=>
                          /\ Clash(a, b, scan.cfg)
                          /\ ~scan.cfg.ignore_faculty
                          /\ ~Listed(a.faculty, scan.cfg.ignore_faculty_list,
                                     scan.cfg.contains_faculty)
                          /\ ~Listed(b.faculty, scan.cfg.ignore_faculty_list,
                                     scan.cfg.contains_faculty)
                          /\ a.faculty = b.faculty
        /\ \A rec \in Records(scan.result) : rec.entry_id # rec.conflicts_with

\* two overlapping rows on a shared day whose rooms (and faculty names) differ
\* in letter case only have no record between them
C18_Witness ==
    /\ Scanned /\ scan.result.ok /\ scan.cfg = DefaultConfig
    /\ \E a, b \in Stored :
           /\ Clash(a, b, scan.cfg)
           /\ a.room = "R101" /\ b.room = "r101"
           /\ ~HasRecord(a, b, "room", scan.result)
           /\ ~HasRecord(a, b, "faculty", scan.result)

\* ------------------------------------------------------------------------
\* Properties of conflicts_for_entry and conflicts_for_candidate (SpecLookup)
\* ------------------------------------------------------------------------

LookedUp == scan # Pending /\ scan.op = "conflicts_for_entry"
Compared == scan # Pending /\ scan.op = "conflicts_for_candidate"

\* the records of a find_conflicts result whose entry_id is the id, in order
RecordsOf(records, entry_id) == SelectSeq(records, LAMBDA rec : rec.entry_id = entry_id)

\* C12: for every table, every configuration and every id, conflicts_for_entry
\* returns exactly the find_conflicts records of that configuration whose
\* entry_id is the id, in the same order.
C12_SameConfiguration ==
    LookedUp =>
        \A cfg \in Configs :
            LET found == find_conflicts(entries, cfg)
            IN  /\ found.ok /\ scan.result.ok
                /\ scan.result.value = RecordsOf(found.value, scan.entry_id)

\* the stored row with the id
RowOf(entry_id) == CHOOSE e \in Stored : e.id = entry_id

\* C13: conflicts_for_candidate with the id of a stored entry and that entry
\* as candidate returns, in order, the (conflict_type, other entry) pairs of
\* the find_conflicts records of the same configuration whose entry_id is the
\* id; the entry with id entry_id is never among the entries it reports.
C13_CandidateAgrees ==
    Compared =>
        /\ scan.result.ok
        /\ \A k \in 1..Len(scan.result.value) : scan.result.value[k].entry.id # scan.entry_id
        /\ scan.candidate \in Stored =>
               LET found == find_conflicts(entries, scan.cfg)
                   mine == RecordsOf(found.value, scan.entry_id)
               IN  /\ found.ok
                   /\ Len(scan.result.value) = Len(mine)
                   /\ \A k \in 1..Len(mine) :
                          /\ scan.result.value[k].conflict_type = mine[k].conflict_type
                          /\ scan.result.value[k].entry = RowOf(mine[k].conflicts_with)

C13_Witness ==
    /\ Compared /\ scan.result.ok /\ scan.candidate \in Stored
    /\ scan.entry_id = 2 /\ Len(entries) = 2
    /\ scan.result.value = <<[conflict_type |-> "room", entry |-> entries[1]],
                             [conflict_type |-> "faculty", entry |-> entries[1]]>>

\* ------------------------------------------------------------------------
\* crud.py and main.py: create, update, delete and CSV import over
\* schedule_entries.  A row keeps the columns the normaliser writes and room
\* and faculty; program, section, course code, description, units and hours
\* are copied through unread and are left out, as are the sections, faculty
\* and rooms name tables that import_csv fills on the side.
\* ------------------------------------------------------------------------

\* Python None / a str in the nullable text column time_24
None == [none |-> TRUE]
Some(text) == [none |-> FALSE, text |-> text]

\* time_utils.is_tba is called by crud.py and main.py and is not defined in
\* time_utils.py; it is taken from spec.md section 4.1, TBA detection: empty,
\* whitespace-only, or tba in any letter case
is_tba(value) == lower(strip(value)) \in {"", "tba"}

InvalidDays == "Invalid Days. Example: M,W,F"
NotFound == "Schedule entry not found"

\* normalized_lpu, time_24, start_minutes, end_minutes = <call>
Unpack4(call) ==
    IF ~call.ok THEN call
    ELSE IF Len(call.value) < 4
         THEN Raised("ValueError", "not enough values to unpack (expected 4, got "
                                   \o str(Len(call.value)) \o ")")
    ELSE IF Len(call.value) > 4
         THEN Raised("ValueError", "too many values to unpack (expected 4)")
    ELSE call

TbaFields ==
    [time_lpu |-> "TBA", time_24 |-> None, start_minutes |-> NULL, end_minutes |-> NULL,
     days |-> "TBA"]

\* the else branch of the normalisation block, given the outcome of the
\* unpacked parse_time_lpu call and the result of normalize_days_string
TimedFields(call, normalized_days) ==
    IF ~call.ok THEN call
    ELSE IF normalized_days = "" THEN Raised("ValueError", InvalidDays)
    ELSE Returned([time_lpu |-> call.value[1], time_24 |-> Some(call.value[2]),
                   start_minutes |-> call.value[3], end_minutes |-> call.value[4],
                   days |-> normalized_days])

\* the normalisation block keeping, for a TBA entry, the time and days as entered
NormalizedFieldsKeepingText(time_text, days_text) ==
    IF is_tba(time_text) \/ is_tba(days_text)
    THEN Returned([TbaFields EXCEPT !.time_lpu = time_text, !.days = days_text])
    ELSE TimedFields(Unpack4(parse_time_lpu(time_text)), normalize_days_string(days_text))

\* the normalisation block shared by create_schedule_entry,
\* update_schedule_entry and import_csv: the five columns it computes
NormalizedFields(time_text, days_text) ==
    IF is_tba(time_text) \/ is_tba(days_text) THEN Returned(TbaFields)
    ELSE TimedFields(Unpack4(parse_time_lpu(time_text)), normalize_days_string(days_text))

\* the INTEGER PRIMARY KEY SQLite gives a new row: one above the largest in the table
RECURSIVE LargestId(_)
LargestId(rows) ==
    IF rows = <<>> THEN 0
    ELSE IF \A k \in 1..Len(rows) : rows[k].id <= Head(rows).id THEN Head(rows).id
    ELSE LargestId(Tail(rows))

NewId(rows) == LargestId(rows) + 1

\* models.ScheduleEntry(...) from the computed columns and the entry's own
ScheduleEntry(id, fields, room, faculty) ==
    [id |-> id, time_lpu |-> fields.time_lpu, time_24 |-> fields.time_24,
     days |-> fields.days, room |-> room, faculty |-> faculty,
     start_minutes |-> fields.start_minutes, end_minutes |-> fields.end_minutes]

\* db.get(models.ScheduleEntry, entry_id): the position of the row, 0 for None
Position(rows, entry_id) ==
    IF \E k \in 1..Len(rows) : rows[k].id = entry_id
    THEN CHOOSE k \in 1..Len(rows) : rows[k].id = entry_id
    ELSE 0

\* each operation gives its outcome and the table it leaves

\* db.add(model); db.commit(); return model, once the columns are computed
Added(rows, fields, entry) ==
    IF ~fields.ok THEN [result |-> fields, rows |-> rows]
    ELSE [result |-> Returned(ScheduleEntry(NewId(rows), fields.value,
                                            entry.room, entry.faculty)),
          rows |-> Append(rows, ScheduleEntry(NewId(rows), fields.value,
                                              entry.room, entry.faculty))]

create_schedule_entry(rows, entry) ==
    Added(rows, NormalizedFields(entry.time_lpu, entry.days), entry)

\* the assignments to the model at position k and db.commit(), once the
\* columns are computed
Replaced(rows, k, fields, entry) ==
    IF ~fields.ok THEN [result |-> fields, rows |-> rows]
    ELSE [result |-> Returned(ScheduleEntry(rows[k].id, fields.value,
                                            entry.room, entry.faculty)),
          rows |-> [rows EXCEPT ![k] = ScheduleEntry(rows[k].id, fields.value,
                                                     entry.room, entry.faculty)]]

\* the same, with room and faculty written before time and days are validated
Patched(rows, k, fields, entry) ==
    IF ~fields.ok
    THEN [result |-> fields,
          rows |-> [rows EXCEPT ![k].room = entry.room, ![k].faculty = entry.faculty]]
    ELSE Replaced(rows, k, fields, entry)

\* an update that writes room and faculty before it validates time and days
update_schedule_entry_patching(rows, entry_id, entry) ==
    IF Position(rows, entry_id) = 0
    THEN [result |-> Raised("ValueError", NotFound), rows |-> rows]
    ELSE Patched(rows, Position(rows, entry_id),
                 NormalizedFields(entry.time_lpu, entry.days), entry)

update_schedule_entry(rows, entry_id, entry) ==
    IF Position(rows, entry_id) = 0
    THEN [result |-> Raised("ValueError", NotFound), rows |-> rows]
    ELSE Replaced(rows, Position(rows, entry_id),
                  NormalizedFields(entry.time_lpu, entry.days), entry)

delete_schedule_entry(rows, entry_id) ==
    LET k == Position(rows, entry_id)
    IN  IF k = 0 THEN [result |-> Raised("ValueError", NotFound), rows |-> rows]
        ELSE [result |-> Returned(None),
              rows |-> SubSeq(rows, 1, k - 1) \o SubSeq(rows, k + 1, Len(rows))]

\* main.py: the handlers turn a ValueError into an HTTP error response
Ok(body) == [status |-> 200, body |-> body]
HttpError(status, detail) == [status |-> status, detail |-> detail]

\* try: return <call>; except ValueError: raise HTTPException(status, str(exc))
Handled(done, status) ==
    [reply |-> IF done.result.ok THEN Ok(done.result.value)
               ELSE HttpError(status, done.result.detail),
     rows |-> done.rows]

create_schedule(rows, entry) == Handled(create_schedule_entry(rows, entry), 422)

update_schedule(rows, entry_id, entry) ==
    Handled(update_schedule_entry(rows, entry_id, entry), 422)

\* the same with the body {"ok": True}
HandledDelete(done, status) ==
    [reply |-> IF done.result.ok THEN Ok([ok |-> TRUE])
               ELSE HttpError(status, done.result.detail),
     rows |-> done.rows]

delete_schedule(rows, entry_id) == HandledDelete(delete_schedule_entry(rows, entry_id), 404)

\* import_csv: the header row is a list of cell texts; a data row gives, for
\* each column the handler reads, the text of its cell ("" for a cell the row
\* does not have)

\* required_map: lower-cased header -> canonical header
required_map ==
    ("program" :> "Program") @@ ("section" :> "Section")
    @@ ("course code" :> "Course Code")
    @@ ("course description" :> "Course Description")
    @@ ("units" :> "Units") @@ ("# of hours" :> "# of Hours")
    @@ ("time (lpu std)" :> "Time (LPU Std)") @@ ("time (24 hrs)" :> "Time (24 Hrs)")
    @@ ("days" :> "Days") @@ ("room" :> "Room") @@ ("faculty" :> "Faculty")

required_headers ==
    <<"Program", "Section", "Course Code", "Course Description", "Units", "# of Hours",
      "Time (LPU Std)", "Days", "Room", "Faculty">>

startswith(s, prefix) == Len(s) >= Len(prefix) /\ SubSeq(s, 1, Len(prefix)) = prefix

\* the keys of header_map
HeaderKeys(header_row) ==
    {required_map[lower(strip(header_row[i]))] :
        i \in {j \in 1..Len(header_row) :
                 LET cleaned == strip(header_row[j])
                 IN  /\ cleaned # "" /\ ~startswith(lower(cleaned), "unnamed")
                     /\ lower(cleaned) \in DOMAIN required_map}}

MissingColumns(header_row) ==
    LET header_map == HeaderKeys(header_row)
    IN  SelectSeq(required_headers, LAMBDA header : header \notin header_map)

\* float(text) for the texts a Units or Hours cell holds here: a plain decimal
\* converts, a word raises ValueError
float(text) ==
    IF /\ \A i \in 1..Len(text) : CharAt(text, i) \in Digits \cup {"."}
       /\ \E i \in 1..Len(text) : CharAt(text, i) \in Digits
       /\ Cardinality({i \in 1..Len(text) : CharAt(text, i) = "."}) <= 1
    THEN Returned(text)
    ELSE Raised("ValueError", "could not convert string to float: '" \o text \o "'")

\* float(units) if units else 0, then the same for hours
Numbers(units, hours) ==
    IF units # "" /\ ~float(units).ok THEN float(units)
    ELSE IF hours # "" /\ ~float(hours).ok THEN float(hours)
    ELSE Returned(<<units, hours>>)

Skipped(acc, idx, reason) ==
    [acc EXCEPT !.rows_total = @ + 1, !.rows_skipped = @ + 1,
                !.errors = Append(@, [row_index |-> idx, reason |-> reason])]

Imported(acc) == [acc EXCEPT !.rows_total = @ + 1, !.rows_imported = @ + 1]

\* db.add(entry) in the session, committed at the end
Staged(acc, fields, row) ==
    [acc EXCEPT !.rows = Append(@, ScheduleEntry(NewId(@), fields.value,
                                                 strip(row.room), strip(row.faculty)))]

\* the try block, once the columns and the numbers are computed
Tried(acc, idx, row, preview, fields, numbers) ==
    IF ~fields.ok THEN Skipped(acc, idx, fields.detail)
    ELSE IF preview THEN Imported(acc)
    ELSE IF ~numbers.ok THEN Skipped(acc, idx, numbers.detail)
    ELSE Imported(Staged(acc, fields, row))

\* the try block storing a row that fails validation as a TBA entry
TriedLenient(acc, idx, row, preview, fields, numbers) ==
    IF preview THEN Imported(acc)
    ELSE IF ~fields.ok THEN Imported(Staged(acc, Returned(TbaFields), row))
    ELSE Imported(Staged(acc, fields, row))

\* the loop body storing a row that fails validation as a TBA entry
ImportRowLenient(acc, idx, row, preview) ==
    TriedLenient(acc, idx, row, preview,
                 NormalizedFields(strip(row.time_lpu), strip(row.days)),
                 Numbers(strip(row.units), strip(row.hours)))

\* one pass of the loop body: the counters, the errors and the session's rows after it
ImportRow(acc, idx, row, preview) ==
    Tried(acc, idx, row, preview,
          NormalizedFields(strip(row.time_lpu), strip(row.days)),
          Numbers(strip(row.units), strip(row.hours)))

RECURSIVE ImportLoop(_, _, _, _)
\* for idx, row in enumerate(reader, start=2), from the k-th data row on
ImportLoop(acc, data, k, preview) ==
    IF k > Len(data) THEN acc
    ELSE ImportLoop(ImportRow(acc, k + 1, data[k], preview), data, k + 1, preview)

\* schemas.CANONICAL_HEADERS as an export writes them, the same as a
\* spreadsheet may re-save them, and a sheet without its Room column
HeaderRows ==
    {<<"Program", "Section", "Course Code", "Course Description", "Units", "# of Hours",
       "Time (LPU Std)", "Time (24 Hrs)", "Days", "Room", "Faculty">>,
     <<"Unnamed: 0", " program", "SECTION ", "course code", "Course description", "units",
       "# Of Hours", "Time (LPU STD)", "days", "", "room", "faculty">>,
     <<"Program", "Section", "Course Code", "Course Description", "Units", "# of Hours",
       "Time (LPU Std)", "Time (24 Hrs)", "Days", "Faculty">>}

\* missing, for each of these header rows
MissingColumnsOf == [header_row \in HeaderRows |-> MissingColumns(header_row)]

\* the response when a required column is missing
MissingReply(missing) ==
    Ok([rows_total |-> 0, rows_imported |-> 0, rows_skipped |-> 0,
        missing_columns |-> missing,
        errors |-> <<[row_index |-> 0, reason |-> "Missing required columns"]>>])

\* db.commit() unless preview, and the response
Finished(done) ==
    [reply |-> Ok([rows_total |-> done.rows_total, rows_imported |-> done.rows_imported,
                   rows_skipped |-> done.rows_skipped, missing_columns |-> <<>>,
                   errors |-> done.errors]),
     rows |-> done.rows]

\* the counters at zero over the rows of the table, emptied first by
\* replace unless preview
Started(rows, replacing, preview) ==
    [rows_total |-> 0, rows_imported |-> 0, rows_skipped |-> 0, errors |-> <<>>,
     rows |-> IF replacing /\ ~preview THEN <<>> ELSE rows]

import_csv(rows, file, replacing, preview) ==
    IF MissingColumnsOf[file.header_row] # <<>>
    THEN [reply |-> MissingReply(MissingColumnsOf[file.header_row]), rows |-> rows]
    ELSE Finished(ImportLoop(Started(rows, replacing, preview), file.data, 1, preview))

\* ------------------------------------------------------------------------
\* The schedule API (SpecCrud): POST, PUT and DELETE /schedule and
\* POST /file/import-csv, one request at a time, on a table that starts empty
\* ------------------------------------------------------------------------

MaxId == 3
MaxCsvRows == 2

\* the payload of tests/test_api.py, TBA in several spellings, an hour out of
\* range, an inverted range
TimeTexts == {"1:00p-2:30p", " tba ", "13:00p-2:30p", "2:30p-1:00p"}
DayTexts == {"Monday", "TBA", "  ", "xyz"}

EntryInputs ==
    [time_lpu : TimeTexts, days : DayTexts, room : {"R101", "R102"}, faculty : {"Dr. Ada"}]

CsvRow(time, day_text, room, faculty, units, hours) ==
    [time_lpu |-> time, days |-> day_text, room |-> room, faculty |-> faculty,
     units |-> units, hours |-> hours]

\* a timed row, a TBA row, a row with an hour out of range, a row whose days
\* are no day, a TBA row whose units are a word
CsvRows ==
    {CsvRow("1:00p-2:30p", "Monday", "R101", "Dr. Ada", "3", "3"),
     CsvRow(" TBA ", "M,W", " R102 ", "Dr. Ada", "3", "1.5"),
     CsvRow("13:00p-2:30p", "M,W", "R101", "Dr. Ada", "3", "3"),
     CsvRow("1:00p-2:30p", "xyz", "R101", "Dr. Ada", "3", "3"),
     CsvRow("tba", "", "R101", "Dr. Ada", "three", "3")}

\* sheets under the canonical header row, and one-row sheets under the others
CsvFiles ==
    [header_row : {h \in HeaderRows : h[1] = "Program" /\ MissingColumnsOf[h] = <<>>},
     data : UNION {[1..n -> CsvRows] : n \in 0..MaxCsvRows}]
    \cup [header_row : HeaderRows, data : [1..1 -> CsvRows]]

InitCrud ==
    /\ entries = <<>> /\ next_id = 1 /\ scan = Pending /\ response = Pending
    /\ time_lpu = "" /\ lpu_parts = <<>> /\ parsed = Pending
    /\ days = "" /\ days_out = Pending
    /\ ranges = <<0, 0, 0, 0>> /\ overlaps = Pending

\* the table after a request, within the ids the model follows
Leaves(rows) ==
    /\ LargestId(rows) <= MaxId
    /\ entries' = rows
    /\ next_id' = NewId(rows)
    /\ UNCHANGED <<time_lpu, lpu_parts, parsed, days, days_out, ranges, overlaps, scan>>

\* a request is answered from the handler's outcome
Served(request, done) ==
    /\ response' = request @@ [reply |-> done.reply]
    /\ Leaves(done.rows)

\* requests are served one at a time
CreateSchedule ==
    /\ response = Pending
    /\ \E entry \in EntryInputs :
           Served([op |-> "create", entry |-> entry], create_schedule(entries, entry))

UpdateSchedule ==
    /\ response = Pending
    /\ \E entry_id \in 1..MaxId, entry \in EntryInputs :
           Served([op |-> "update", entry_id |-> entry_id, entry |-> entry],
                  update_schedule(entries, entry_id, entry))

DeleteSchedule ==
    /\ response = Pending
    /\ \E entry_id \in 1..MaxId :
           Served([op |-> "delete", entry_id |-> entry_id],
                  delete_schedule(entries, entry_id))

ImportCsv ==
    /\ response = Pending
    /\ \E file \in CsvFiles, replacing \in BOOLEAN, preview \in BOOLEAN :
           Served([op |-> "import_csv", file |-> file, replacing |-> replacing,
                   preview |-> preview],
                  import_csv(entries, file, replacing, preview))

\* the reply leaves the server
Reply ==
    /\ response # Pending
    /\ response' = Pending
    /\ UNCHANGED <<time_lpu, lpu_parts, parsed, days, days_out, ranges, overlaps,
                   entries, next_id, scan>>

NextCrud == CreateSchedule \/ UpdateSchedule \/ DeleteSchedule \/ ImportCsv \/ Reply

SpecCrud == InitCrud /\ [][NextCrud]_vars

\* ------------------------------------------------------------------------
\* Claims about running the normalisers on their own output
\* ------------------------------------------------------------------------

\* the 24-hour string comes before start and end in the returned tuple
Time24Of(r) == r.value[Len(r.value) - 2]

\* C15: for every text parse_time_lpu accepts, parse_time_lpu on the 24-hour
\* string it produced succeeds and yields the same 24-hour string and the same
\* start and end minutes
C15_TimeIdempotent ==
    Accepted => /\ parse_time_lpu(Time24Of(parsed)).ok
                /\ Time24Of(parse_time_lpu(Time24Of(parsed))) = Time24Of(parsed)
                /\ StartOf(parse_time_lpu(Time24Of(parsed))) = StartOf(parsed)
                /\ EndOf(parse_time_lpu(Time24Of(parsed))) = EndOf(parsed)

\* C16: for every days text d, normalize_days_string on normalize_days_string(d)
\* gives normalize_days_string(d) again, single-token results included
C16_DaysIdempotent ==
    Normalized => normalize_days_string(days_out.value) = days_out.value

\* reached: a compact text normalised to one two-letter token, another to
\* three tokens
C16_Witness ==
    /\ Normalized
    /\ \/ days = "tH" /\ days_out.value = "Th"
       \/ days = "sA" /\ days_out.value = "Sa"
       \/ days = "su" /\ days_out.value = "Su"

\* ------------------------------------------------------------------------
\* Claims about the schedule API
\* ------------------------------------------------------------------------

Answered == response # Pending
AnsweredTo(op) == Answered /\ response.op = op
Succeeded == Answered /\ response.reply.status = 200

StoredAt(e) == \E k \in 1..Len(entries) : entries[k] = e
StoredId(id) == \E k \in 1..Len(entries) : entries[k].id = id

CanonicalList(text) ==
    /\ text # ""
    /\ \A i \in 1..Len(split(text, ",")) : split(text, ",")[i] \in CANONICAL_DAYS

FullyTimed(e) ==
    /\ e.time_24 # None
    /\ e.start_minutes # NULL /\ e.end_minutes # NULL
    /\ e.start_minutes < e.end_minutes
    /\ CanonicalList(e.days)

FullyTba(e) ==
    /\ e.time_lpu = "TBA" /\ e.days = "TBA"
    /\ e.time_24 = None /\ e.start_minutes = NULL /\ e.end_minutes = NULL

TbaInput(entry) == TbaEquivalent(entry.time_lpu) \/ TbaEquivalent(entry.days)

\* C14: after any sequence of create, update, delete and CSV import, every
\* stored entry is fully timed or fully TBA; a create whose time or days field
\* is TBA-equivalent succeeds, and the entry a successful create or update
\* stores for such an input is fully TBA
C14_TimedOrTba ==
    /\ \A k \in 1..Len(entries) : FullyTimed(entries[k]) \/ FullyTba(entries[k])
    /\ (AnsweredTo("create") /\ TbaInput(response.entry)) => Succeeded
    /\ (Succeeded /\ response.op \in {"create", "update"} /\ TbaInput(response.entry))
           => FullyTba(response.reply.body) /\ StoredAt(response.reply.body)

\* reached: a create with a valid time and days TBA is stored as fully TBA,
\* and so is a CSV row with time " TBA " and days M,W
C14_Witness ==
    /\ AnsweredTo("create") /\ Succeeded
    /\ response.entry.time_lpu = "1:00p-2:30p" /\ response.entry.days = "TBA"
    /\ StoredAt(response.reply.body) /\ FullyTba(response.reply.body)
    /\ \E k \in 1..Len(entries) : entries[k].room = "R102" /\ entries[k].id # response.reply.body.id

\* C17: a create with the time 1:00p-2:30p and the days Monday succeeds and
\* returns the stored entry with its newly assigned id; a delete of an id in
\* the store succeeds, and afterwards that id is no longer in the store
C17_CreateThenDelete ==
    [][/\ (/\ response' # Pending /\ response'.op = "create"
           /\ response'.entry.time_lpu = "1:00p-2:30p" /\ response'.entry.days = "Monday")
          => /\ response'.reply.status = 200
             /\ ~StoredId(response'.reply.body.id)
             /\ \E k \in 1..Len(entries') : entries'[k] = response'.reply.body
       /\ (response' # Pending /\ response'.op = "delete" /\ StoredId(response'.entry_id))
          => /\ response'.reply.status = 200
             /\ \A k \in 1..Len(entries') : entries'[k].id # response'.entry_id]_vars

\* a data row whose time or days fail validation: neither is TBA-equivalent,
\* and the time is not a valid range or the days hold no day
FailsValidation(row) ==
    /\ ~TbaEquivalent(row.time_lpu) /\ ~TbaEquivalent(row.days)
    /\ ~parse_time_lpu(strip(row.time_lpu)).ok \/ normalize_days_string(strip(row.days)) = ""

Reported(errors, idx) ==
    \E j \in 1..Len(errors) : errors[j].row_index = idx /\ errors[j].reason # ""

\* the report of an import of the sheet file into the table before, leaving
\* the table after: every failing row is reported under its row index (the
\* header row is row 1), every row is counted, and the counts add up
RowsReported(body, file, preview, replacing, before, after) ==
    /\ \A i \in 1..Len(file.data) :
           FailsValidation(file.data[i]) => Reported(body.errors, i + 1)
    /\ body.rows_total = Len(file.data)
    /\ body.rows_total = body.rows_imported + body.rows_skipped
    /\ Len(body.errors) = body.rows_skipped
    /\ ~preview => Len(after) = (IF replacing THEN 0 ELSE Len(before)) + body.rows_imported
    /\ preview => after = before

\* C19 as stated, for every import: a data row whose time or days fail
\* validation is reported in errors with its row index and a reason and the
\* rows after it are processed; rows_total = rows_imported + rows_skipped, the
\* number of errors is rows_skipped, and without preview exactly
\* rows_imported rows are added to the store
C19_EveryImport ==
    [][(response' # Pending /\ response'.op = "import_csv")
          => RowsReported(response'.reply.body, response'.file, response'.preview,
                          response'.replacing, entries, entries')]_vars

\* C19 amended: the same for every import whose header row has all required
\* columns; an import whose header row lacks one processes no row, leaves the
\* store as it is and reports all counts 0 with one error of row index 0
C19_ImportReport ==
    [][(response' # Pending /\ response'.op = "import_csv")
          => IF response'.reply.body.missing_columns = <<>>
             THEN RowsReported(response'.reply.body, response'.file, response'.preview,
                               response'.replacing, entries, entries')
             ELSE /\ entries' = entries
                  /\ response'.reply.body.rows_total = 0
                  /\ response'.reply.body.rows_imported = 0
                  /\ response'.reply.body.rows_skipped = 0
                  /\ Len(response'.reply.body.errors) = 1
                  /\ response'.reply.body.errors[1].row_index = 0]_vars

\* reached: an import without preview of a row with an hour out of range
\* followed by a TBA row: the first is reported as row 2, the second is stored
C19_Witness ==
    /\ AnsweredTo("import_csv") /\ ~response.preview
    /\ Len(response.file.data) = 2
    /\ FailsValidation(response.file.data[1]) /\ TbaInput(response.file.data[2])
    /\ response.reply.body.rows_total = 2
    /\ response.reply.body.rows_imported = 1 /\ response.reply.body.rows_skipped = 1
    /\ response.reply.body.errors[1].row_index = 2
    /\ response.reply.body.errors[1].reason = InvalidTimeComponent
    /\ entries # <<>> /\ entries[Len(entries)].room = strip(response.file.data[2].room)
    /\ FullyTba(entries[Len(entries)])

UpperOf == [c \in {CharAt(LowerLetters, i) : i \in 1..26} |->
               CharAt(UpperLetters, CHOOSE i \in 1..26 : CharAt(LowerLetters, i) = c)]

UpperChar(c) == IF c \in DOMAIN UpperOf THEN UpperOf[c] ELSE c

RECURSIVE upper(_)
upper(s) == IF s = "" THEN "" ELSE UpperChar(Head(s)) \o upper(Tail(s))

\* str.capitalize for a lower-case word
capitalize(s) == IF s = "" THEN "" ELSE UpperChar(Head(s)) \o Tail(s)

AliasTexts == UNION {{key, upper(key), capitalize(key)} : key \in DOMAIN DAY_ALIASES}

\* the delimited list F,<key>
ListPrefix == "F,"
AliasLists == {ListPrefix \o text : text \in AliasTexts}

InitAlias ==
    /\ days \in AliasTexts \cup AliasLists
    /\ days_out = Pending
    /\ time_lpu = "" /\ lpu_parts = <<>> /\ parsed = Pending
    /\ ranges = <<0, 0, 0, 0>> /\ overlaps = Pending
    /\ entries = <<>> /\ next_id = 1 /\ scan = Pending /\ response = Pending

NextAlias == NormalizeDaysString

SpecAlias == InitAlias /\ [][NextAlias]_vars

\* ------------------------------------------------------------------------
\* Claims about the alias table
\* ------------------------------------------------------------------------

IsAliasList(text) == startswith(text, ListPrefix) /\ Len(text) > Len(ListPrefix)
KeyOfList(text) == lower(SubSeq(text, Len(ListPrefix) + 1, Len(text)))

\* C21: for every key k of DAY_ALIASES in any letter case, a days text that is
\* k alone normalises to exactly the canonical token the table maps k to, the
\* token k gives as one token of a delimited list
C21_AliasAlone ==
    Normalized =>
        /\ lower(days) \in DOMAIN DAY_ALIASES => days_out.value = DAY_ALIASES[lower(days)]
        /\ IsAliasList(days) => days_out.value = ListPrefix \o DAY_ALIASES[KeyOfList(days)]

====
